---- MODULE Spec2Model ----
(***************************************************************************)
(* PersonaChat backend: the plugin-mediated chat pipeline.                 *)
(*                                                                         *)
(*   app/main.py                 chat (the /chat endpoint)                 *)
(*   app/plugins/manager.py      PluginManager (hook chain)                *)
(*   app/plugins/base.py         BasePlugin                                *)
(*   plugins_available/*.py      the shipped plugins                       *)
(*   app/services/ai_service.py  providers and AIServiceManager            *)
(*   app/services/rag_service.py perform_rag_search                        *)
(*   app/storage/chat_history.py ChatHistoryManager (SQLite)               *)
(*   app/api/history_routes.py   the /history routes                       *)
(*   app/core/config.py          ConfigManager (saved preferences)         *)
(*                                                                         *)
(* Specifications: Spec (one chat request), SpecHistory (two requests in   *)
(* sequence, long conversations), SpecStore (the history API), SpecFaults  *)
(* (failing INSERTs, cancellation), SpecConcurrent (two requests at once), *)
(* SpecPlugins (enable, disable, restart), SpecProviders (every provider   *)
(* and credential), SpecOutput (units that transform the output),          *)
(* SpecCodeRunner (the code runner's /execute and /deny commands).         *)
(*                                                                         *)
(* The module-level wiring the endpoint relies on is taken as present:     *)
(* plugin_manager is a PluginManager, vector_store and embedding_generator *)
(* are constructed, and app/services/ai_service.py can reach logging.      *)
(* AIServiceManager.call_ai has callers only; it is modelled after the     *)
(* provider registry of the specification.                                 *)
(*                                                                         *)
(* A text is a sequence of pieces.  Every piece the code inspects          *)
(* (startswith, strip, lower, slicing) is a single character; fixed        *)
(* literals the code only concatenates or returns are one piece.           *)
(***************************************************************************)
EXTENDS Integers, Sequences, FiniteSets, TLC

\* ------------------------------------------------------------------ bounds
\* number of plugins discovered in plugins_available/
NumPlugins == 2
\* rows of table messages left in the database file by earlier runs
MaxStored == 1
\* calls a client makes on the history API
MaxCalls == 3
\* code blocks the code runner registers
NumIds == 2
\* /execute and /deny commands served by the code runner
NumCommands == 3

\* ---------------------------------------------------------- program values
\* chat(): get_messages(conversation_id, limit=10)
HistoryLimit == 10
\* user_message[5:]
RagPrefixLen == 5

Reqs == {"r1", "r2"}
\* the request slots the sequential specification uses
SeqReqs == {"r1"}

\* ------------------------------------------------------------------- texts
RagPrefix == <<"/", "r", "a", "g", " ">>
HelloCommand == <<"/", "h", "e", "l", "l", "o">>
HelloResponse == <<"Plugin Response: Hello there!">>
RagInstruction == <<"Use the following context to answer the user's question:\n">>

\* str.startswith
StartsWith(t, p) == Len(t) >= Len(p) /\ SubSeq(t, 1, Len(p)) = p

\* t[n:]
SliceFrom(t, n) == SubSeq(t, n + 1, Len(t))

\* str.lower, on the characters of the alphabet in use
LowerChar(c) == IF c = "H" THEN "h" ELSE IF c = "R" THEN "r" ELSE c

Lower(t) == [i \in 1..Len(t) |-> LowerChar(t[i])]

RECURSIVE LStrip(_)
LStrip(t) == IF t # <<>> /\ Head(t) = " " THEN LStrip(Tail(t)) ELSE t

RECURSIVE RStrip(_)
RStrip(t) ==
    IF t # <<>> /\ t[Len(t)] = " " THEN RStrip(SubSeq(t, 1, Len(t) - 1)) ELSE t

\* str.strip
Strip(t) == LStrip(RStrip(t))

\* messages a client sends
UserTexts ==
    { <<"/", "h", "e", "l", "l", "o">>,
      <<"/", "H", "e", "l", "l", "o", " ">>,
      <<"/", "r", "a", "g", " ", "q">> }

\* replacement texts a plugin's process_input returns
PluginTexts ==
    { <<>>,
      <<"/", "r", "a", "g", " ", "k">>,
      <<"p">> }

\* texts a model returns
ModelTexts == { <<"a">> }

\* the chunks a vector search returns: [source, score, content]
Chunk1 == [source |-> "doc1", score |-> "0.90", content |-> "c1"]
Chunk2 == [source |-> "Unknown", score |-> "0.50", content |-> "c2"]

\* result lists of vector_store.search (at most top_k entries)
SearchResults == { <<>>, <<Chunk1>>, <<Chunk1, Chunk2>> }

Models == { "llama3-8b-8192" }

\* conversation_id of a request: none (0, as None), or id 1, which is a
\* stored conversation or no conversation, by the database
ClientConversationIds == {0, 1}

\* ---------------------------------------------------------------- variables
VARIABLES
    api_key,        \* provider name -> whether a credential is configured
    providers,      \* AIServiceManager.providers (the keys of the dict)
    plugins,        \* PluginManager.plugins, in dict order: [kind, enabled]
    conversations,  \* ids of the rows of table conversations
    nextConvId,     \* AUTOINCREMENT counter of table conversations
    messages,       \* rows of table messages, in rowid order
    clock,          \* the latest CURRENT_TIMESTAMP handed out, in seconds
    req,            \* request slot -> the locals of one run of chat()
    store_calls,    \* the calls made on the history API, with their results
    plugin_states,  \* PluginManager.plugin_states: plugin -> "True", "False",
                    \* or "absent" for a key the dict does not hold
    user_prefs,     \* ConfigManager.user_prefs, as saved in prefs.json: the
                    \* leaves of the nested dict, each with its path of keys
    pending_code,   \* CodeRunnerPlugin.pending_code (the keys of the dict)
    generated,      \* request ids uuid4 has handed to the code runner
    run_count,      \* request id -> calls of run_code with its code
    commands        \* command slot -> one run of CodeRunnerPlugin.process_input

\* the state of the CodeRunnerPlugin instance and of the commands it serves
runnerVars == <<pending_code, generated, run_count, commands>>

vars == <<api_key, providers, plugins, conversations, nextConvId, messages,
          clock, req, store_calls, plugin_states, user_prefs, runnerVars>>

\* ------------------------------------------------------- provider registry
ProviderNames == {"groq", "openrouter", "google", "together"}

\* providers whose generate only translates httpx.RequestError and
\* httpx.HTTPStatusError (GroqProvider, OpenRouterProvider); the other two
\* translate every exception of the request
NarrowCatch == {"groq", "openrouter"}

\* provider names a client sends
RequestProviders == {"groq", "Groq", "google", "nonexistent"}

\* credential configurations of a deployment
KeyConfigs == {[p \in ProviderNames |-> b] : b \in BOOLEAN}

\* AIServiceManager.__init__: each constructor only reads its key, so every
\* variant is registered whether or not its credential is configured
AIServiceManagerInit(keys) == ProviderNames

\* what one HTTP request of a provider can end in
NetOutcomes == {"ok", "request_error", "http_status_error", "bad_body"}

\* <Provider>.generate: the exception raised, or "none" and the text.
\*   net is the outcome of the single client.post, used only when issued
GenerateUntranslated(name, key, net, text) ==
    IF ~key THEN [exc |-> "ValueError", net_calls |-> 0, text |-> <<>>]
    ELSE IF net = "ok" THEN [exc |-> "none", net_calls |-> 1, text |-> text]
    ELSE [exc |-> "HTTPError", net_calls |-> 1, text |-> <<>>]

GenerateWithoutKeyCheck(name, key, net, text) ==
    IF net = "ok" /\ key
        THEN [exc |-> "none", net_calls |-> 1, text |-> text]
    ELSE [exc |-> "ValueError", net_calls |-> 1, text |-> <<>>]

Generate(name, key, net, text) ==
    IF ~key THEN [exc |-> "ValueError", net_calls |-> 0, text |-> <<>>]
    ELSE IF net = "ok" THEN [exc |-> "none", net_calls |-> 1, text |-> text]
    ELSE IF net \in {"request_error", "http_status_error"}
        THEN [exc |-> "ValueError", net_calls |-> 1, text |-> <<>>]
    \* a 2xx reply without choices[0].message.content
    ELSE IF name \in NarrowCatch
        THEN [exc |-> "KeyError", net_calls |-> 1, text |-> <<>>]
        ELSE [exc |-> "ValueError", net_calls |-> 1, text |-> <<>>]

\* the registry's case-insensitive lookup key
LowerName(n) == IF n = "Groq" THEN "groq" ELSE n

\* AIServiceManager.call_ai: resolve the provider, then generate
CallAi(provs, keys, provider_name, net, text) ==
    LET name == LowerName(provider_name) IN
    IF name \notin provs
        THEN [exc |-> "NotFoundError", resolved |-> FALSE, net_calls |-> 0,
              text |-> <<>>]
        ELSE LET g == Generate(name, keys[name], net, text) IN
             [exc |-> g.exc, resolved |-> TRUE, net_calls |-> g.net_calls,
              text |-> g.text]

\* chat(): except ValueError -> 400, except Exception -> 500
ExceptionStatuses(exc) ==
    IF exc = "ValueError" THEN {400}
    \* the class raised for an unknown provider may or may not derive
    \* from ValueError
    ELSE IF exc = "NotFoundError" THEN {400, 500}
    ELSE {500}

\* ------------------------------------------------------------ chat history
Roles == {"user", "ai", "system"}

\* ChatHistoryManager.add_message: one INSERT; the CHECK on role aborts it
AddMessage(msgs, conversation_id, role, content, model_used, now) ==
    IF role \notin Roles THEN msgs
    ELSE Append(msgs, [conversation_id |-> conversation_id, role |-> role,
                       content |-> content, timestamp |-> now,
                       model_used |-> model_used])

\* PRAGMA foreign_keys of a connection: _get_db_connection leaves SQLite's
\* default, under which FOREIGN KEY clauses are parsed and not enforced
ForeignKeys == FALSE

\* the INSERT of add_message is refused: the CHECK on role, and the
\* FOREIGN KEY on conversation_id when foreign keys are enforced
InsertRefused(convs, conversation_id, role) ==
    \/ role \notin Roles
    \/ ForeignKeys /\ conversation_id \notin convs

\* DELETE FROM conversations WHERE id = ?: the rows of table messages left,
\* ON DELETE CASCADE acting only when foreign keys are enforced
DeleteConversation(msgs, conversation_id) ==
    IF ForeignKeys
        THEN SelectSeq(msgs, LAMBDA m : m.conversation_id # conversation_id)
        ELSE msgs

\* ORDER BY timestamp ASC over the rows I of msgs, as rowids: SQLite scans
\* the table in rowid order and its sorter keeps rows of equal timestamp in
\* the order they were scanned
RECURSIVE TimestampOrderTiesReversed(_, _)
TimestampOrderTiesReversed(msgs, I) ==
    IF I = {} THEN <<>>
    ELSE LET i == CHOOSE a \in I : \A b \in I :
                    \/ msgs[a].timestamp < msgs[b].timestamp
                    \/ msgs[a].timestamp = msgs[b].timestamp /\ a >= b
         IN <<i>> \o TimestampOrderTiesReversed(msgs, I \ {i})

RECURSIVE TimestampOrder(_, _)
TimestampOrder(msgs, I) ==
    IF I = {} THEN <<>>
    ELSE LET i == CHOOSE a \in I : \A b \in I :
                    \/ msgs[a].timestamp < msgs[b].timestamp
                    \/ msgs[a].timestamp = msgs[b].timestamp /\ a <= b
         IN <<i>> \o TimestampOrder(msgs, I \ {i})

\* ChatHistoryManager.get_messages: the rows of the conversation by
\* timestamp, cut to the first limit rows when limit is not 0 (None)
GetMessages(msgs, conversation_id, limit) ==
    LET f == TimestampOrder(msgs,
                {i \in 1..Len(msgs) : msgs[i].conversation_id = conversation_id})
    IN [k \in 1..(IF limit # 0 /\ limit < Len(f) THEN limit ELSE Len(f))
            |-> msgs[f[k]]]

\* chat(): [{"role": msg["role"], "content": msg["content"]} for msg in history]
Project(history) ==
    [k \in 1..Len(history) |->
        [role |-> history[k].role, content |-> history[k].content]]

\* --------------------------------------------------------------------- RAG
FormatChunk(c) ==
    <<"Source: ", c.source, " (Score: ", c.score, ")\nContent: ", c.content>>

RECURSIVE JoinParts(_)
JoinParts(parts) ==
    IF parts = <<>> THEN <<>>
    ELSE IF Len(parts) = 1 THEN parts[1]
    ELSE parts[1] \o <<"\n---\n">> \o JoinParts(Tail(parts))

\* what the embedding and the search of one retrieval can end in
RagOutcomes ==
    {[embed_ok |-> FALSE, search_ok |-> FALSE, results |-> <<>>]}
    \cup {[embed_ok |-> TRUE, search_ok |-> FALSE, results |-> <<>>]}
    \cup {[embed_ok |-> TRUE, search_ok |-> TRUE, results |-> rs] :
            rs \in SearchResults}

\* how a retrieval ended
RagOutcomeName(o) ==
    IF ~o.embed_ok THEN "embed_error"
    ELSE IF ~o.search_ok THEN "search_error"
    ELSE IF o.results = <<>> THEN "no_match"
    ELSE "hit"

\* perform_rag_search: the context string, "" on any failure or no match
PerformRagSearchReportsFailure(o) ==
    IF ~o.embed_ok \/ ~o.search_ok THEN <<"Error performing RAG search">>
    ELSE IF o.results = <<>> THEN <<"No relevant documents found">>
    ELSE JoinParts([k \in 1..Len(o.results) |-> FormatChunk(o.results[k])])

PerformRagSearch(o) ==
    IF ~o.embed_ok \/ ~o.search_ok THEN <<>>
    ELSE IF o.results = <<>> THEN <<>>
    ELSE JoinParts([k \in 1..Len(o.results) |-> FormatChunk(o.results[k])])

\* the database file left by earlier runs: n rows of conversation 1, user
\* and ai rows in turn, the two rows of a turn stored in the same second
StoredRows(n) ==
    [i \in 1..n |->
        [conversation_id |-> 1,
         role |-> IF i % 2 = 1 THEN "user" ELSE "ai",
         content |-> <<"h", ToString(i)>>,
         timestamp |-> (i + 1) \div 2,
         model_used |-> IF i % 2 = 1 THEN "None" ELSE "llama3-8b-8192"]]

\* CURRENT_TIMESTAMP of a write: the clock has second resolution and does
\* not run backwards
Timestamps(c) == {c, c + 1}

\* ----------------------------------------------------------------- plugins
\* "simple_command" is SimpleCommandPlugin; "generic" stands for any other
\* unit (web search, code runner, RAG, third-party), whose hooks may return
\* None, return a text, raise, and write the shared context; "transformer"
\* is a unit that overrides process_output only, which may also return ""
\* and write context['bypass_ai']
PluginKinds == {"simple_command", "generic", "transformer"}

\* the orders os.listdir may deliver the plugin modules in: the example
\* command plugin at any one place among the other units, or not installed
PluginOrders ==
    {[k \in 1..NumPlugins |-> IF k = p THEN "simple_command" ELSE "generic"] :
        p \in 0..NumPlugins}

\* ------------------------------------------------- saved plugin states
\* str(bool), as json.dump writes a state
StateName(b) == IF b THEN "True" ELSE "False"

\* a plugin_states dict without keys
NoStates == [k \in 1..NumPlugins |-> "absent"]

\* ConfigManager.set_setting followed by save_user_prefs:
\* user_prefs["settings"][key] = value, of which the leaf "states" is kept
SetSetting(prefs, key, value) ==
    {e \in prefs : ~(Len(e.path) >= 2 /\ e.path[1] = "settings"
                        /\ e.path[2] = key)}
    \cup {[path |-> <<"settings", key, "states">>, value |-> value]}

\* PluginManager._save_plugin_settings
SavePluginSettings(prefs, states) == SetSetting(prefs, "plugins", states)

\* PluginManager._load_initial_settings: user_prefs["plugins"]["states"]
\* when user_prefs has the key "plugins", else the empty dict of __init__
LoadInitialSettings(prefs) ==
    IF \E e \in prefs : e.path = <<"plugins", "states">>
        THEN (CHOOSE e \in prefs : e.path = <<"plugins", "states">>).value
        ELSE NoStates

\* discover_and_load_plugins, line 74: plugin_states.get(plugin_id, True)
InitialState(states, k) ==
    IF states[k] = "absent" THEN TRUE ELSE states[k] = "True"

\* the plugin manager as an administrator left it: every plugin has been
\* enabled or disabled by a call since startup, in the order `order`
Administered(order, en) ==
    /\ plugins = [k \in 1..NumPlugins |->
                    [kind |-> order[k], enabled |-> en[k],
                     last_set |-> StateName(en[k])]]
    /\ plugin_states = [k \in 1..NumPlugins |-> StateName(en[k])]
    /\ user_prefs = SavePluginSettings({}, plugin_states)

NoChange == [raised |-> FALSE, is_none |-> TRUE, value |-> <<>>,
             set_bypass |-> FALSE]

\* SimpleCommandPlugin.process_input
SimpleCommandProcessInput(text) ==
    IF Lower(Strip(text)) = HelloCommand
        THEN [raised |-> FALSE, is_none |-> FALSE, value |-> HelloResponse,
              set_bypass |-> TRUE]
        ELSE NoChange

\* BasePlugin.process_input as a unit may override it: the possible results
\* of one call (set_bypass: the call wrote context['bypass_ai'] = True)
ProcessInputResults(kind, text) ==
    IF kind = "simple_command" THEN {SimpleCommandProcessInput(text)}
    ELSE IF kind = "transformer" THEN {NoChange}
    ELSE {[raised |-> TRUE, is_none |-> TRUE, value |-> <<>>, set_bypass |-> b] :
            b \in BOOLEAN}
         \cup {[raised |-> FALSE, is_none |-> TRUE, value |-> <<>>,
                set_bypass |-> b] : b \in BOOLEAN}
         \cup {[raised |-> FALSE, is_none |-> FALSE, value |-> v,
                set_bypass |-> b] : v \in PluginTexts, b \in BOOLEAN}

\* what a process_output call does with the text
OutputOps == {"none", "raise", "append"}

\* what a process_output call of a transformer does: besides the above it
\* may return "" ("empty"), write context['bypass_ai'] = True and return
\* None ("set_bypass"), or write it and return "" ("bypass_empty")
TransformerOps == OutputOps \cup {"empty", "set_bypass", "bypass_empty"}

\* BasePlugin.process_output as a unit may override it
ProcessOutputOps(kind) ==
    IF kind = "simple_command" THEN {"none"}
    ELSE IF kind = "transformer" THEN TransformerOps
    ELSE OutputOps

\* the text an output transformation returns
ApplyOutputOp(op, text) ==
    IF op = "append" THEN text \o <<"+">>
    ELSE IF op \in {"empty", "bypass_empty"} THEN <<>>
    ELSE text

\* the call wrote context['bypass_ai'] = True
OutputOpSetsBypass(op) == op \in {"set_bypass", "bypass_empty"}

\* ---------------------------------------------------------- the code runner
\* uuid4 does not repeat: the ids are numbered in the order generated
Ids == 1..NumIds

Commands == 1..NumCommands

\* the replies of process_input
InvalidId == "Invalid or expired execution ID."
Cancelled == "Code execution cancelled."
NoOutput == "Code executed (no output)"
\* the joined stdout, stderr and error of a run, and the reply to a raise
RunReplies == {"Output", NoOutput, "Code execution failed"}

IdleCommand == [pc |-> "idle", kind |-> "none", id |-> 0, reply |-> "none",
                bypass_ai |-> FALSE]

\* CodeRunnerPlugin.__init__
CodeRunnerInit ==
    /\ pending_code = {}
    /\ generated = 0
    /\ run_count = [i \in Ids |-> 0]
    /\ commands = [c \in Commands |-> IdleCommand]

\* -------------------------------------------------------------- the request
IdleReq ==
    [pc |-> "idle",
     \* ChatMessage
     message |-> <<>>, conversation_id_in |-> 0, provider |-> "groq",
     model |-> "llama3-8b-8192",
     \* locals of chat()
     conversation_id |-> 0, history |-> <<>>, messages |-> <<>>,
     bypass_ai |-> FALSE, user_message |-> <<>>, rag_context |-> <<>>,
     ai_content |-> <<>>, response |-> <<>>, status |-> 0,
     exc |-> "none",
     \* locals of the hook loop
     idx |-> 1, text |-> <<>>,
     \* observations of this run: the database at its start, the input
     \* hooks called, the plugin that ended the input phase, the calls made
     base |-> <<>>, base_convs |-> {},
     invoked |-> {}, raised |-> FALSE, short |-> 0, broke |-> 0,
     embed_calls |-> 0, search_calls |-> 0, rag_outcome |-> "none",
     call_ai_calls |-> 0, generate_calls |-> 0, net_calls |-> 0,
     net |-> "none", model_text |-> <<>>,
     \* the output phase as it runs with the raising plugins taken out
     out_raised |-> FALSE, out_without |-> <<>>,
     \* the task of the request was cancelled
     cancelled |-> FALSE,
     \* the rowid of the first row the turn stored, and the requests that
     \* had stored their turn before
     first_row |-> 0, done_before |-> {},
     \* the input phase as the plugins saw it: the last text a process_input
     \* returned (the request's message before any), whether a call wrote
     \* bypass_ai, the plugin that returned "" with bypass_ai not set, and
     \* the plugin that raised after writing bypass_ai
     last_repl |-> <<>>, ctx_set |-> FALSE, empty_at |-> 0,
     raise_bypass_at |-> 0,
     \* the output phase as the plugins saw it: the process_output calls in
     \* the order made, the first plugin that returned "", and the first
     \* that wrote bypass_ai
     out_invoked |-> <<>>, out_empty_at |-> 0, out_bypass_at |-> 0]

\* the database file at startup: empty, or conversation 1 with n rows
Database(n) ==
    /\ messages = StoredRows(n)
    /\ conversations = IF n = 0 THEN {} ELSE {1}
    /\ nextConvId = IF n = 0 THEN 1 ELSE 2
    /\ clock = (n + 1) \div 2

Init ==
    /\ api_key \in KeyConfigs
    /\ providers = AIServiceManagerInit(api_key)
    /\ \E order \in PluginOrders, en \in [1..NumPlugins -> BOOLEAN] :
        Administered(order, en)
    /\ \E n \in 0..MaxStored : Database(n)
    /\ req = [r \in Reqs |-> IdleReq]
    /\ CodeRunnerInit
    /\ store_calls = <<>>

\* chat(), lines 161-180: resolve the conversation, load and project the
\* history, build the context, enter the input phase; the request is drawn
\* from the given texts, conversation ids and provider names
ChatStartWith(r, texts, cids, provs) ==
    /\ req[r].pc = "idle"
    /\ \E msg \in texts, cid \in cids, prov \in provs, model \in Models :
        LET create == (cid = 0)
            conv == IF create THEN nextConvId ELSE cid
            h == GetMessages(messages, conv, HistoryLimit)
        IN
        /\ conversations' = IF create THEN conversations \cup {nextConvId}
                            ELSE conversations
        /\ nextConvId' = IF create THEN nextConvId + 1 ELSE nextConvId
        /\ req' = [req EXCEPT ![r] =
                [IdleReq EXCEPT
                    !.pc = IF Len(plugins) = 0 THEN "rag" ELSE "input",
                    !.message = msg, !.conversation_id_in = cid,
                    !.provider = prov, !.model = model,
                    !.conversation_id = conv, !.history = h,
                    !.messages = Project(h),
                    !.text = msg, !.idx = 1, !.last_repl = msg,
                    !.base = messages, !.base_convs = conversations]]
    /\ UNCHANGED <<runnerVars, plugin_states, user_prefs, store_calls, api_key, providers, plugins, messages, clock>>

\* a chat request of any client
ChatStart(r) ==
    ChatStartWith(r, UserTexts, ClientConversationIds, RequestProviders)

\* PluginManager.run_process_input_hooks, one iteration of the loop for an
\* enabled plugin k: the body of the try and the except.  The loop ends
\* (pc = "rag") on return, on break and after the last plugin.
AfterInputRaiseAborts(q, k, res) ==
    LET bypass == q.bypass_ai \/ res.set_bypass
        base == [q EXCEPT !.bypass_ai = bypass, !.raised = res.raised,
                          !.invoked = q.invoked \cup {k}]
        next == [base EXCEPT !.idx = k + 1,
                     !.pc = IF k = Len(plugins) THEN "rag" ELSE "input"]
    IN
    IF res.raised THEN [base EXCEPT !.pc = "rag"]
    ELSE IF res.is_none THEN next
    ELSE IF bypass
        THEN [base EXCEPT !.text = res.value, !.pc = "rag", !.short = k]
    ELSE IF res.value = <<>>
        THEN [base EXCEPT !.text = res.value, !.pc = "rag", !.broke = k]
    ELSE [next EXCEPT !.text = res.value]

AfterInputDropsReplacement(q, k, res) ==
    LET bypass == q.bypass_ai \/ res.set_bypass
        base == [q EXCEPT !.bypass_ai = bypass, !.raised = res.raised,
                          !.invoked = q.invoked \cup {k}]
        next == [base EXCEPT !.idx = k + 1,
                     !.pc = IF k = Len(plugins) THEN "rag" ELSE "input"]
    IN
    IF res.raised THEN next
    ELSE IF res.is_none THEN next
    ELSE IF bypass
        THEN [base EXCEPT !.text = res.value, !.pc = "rag", !.short = k]
    ELSE IF res.value = <<>>
        THEN [base EXCEPT !.text = res.value, !.pc = "rag", !.broke = k]
    ELSE next

AfterInputEmptyContinues(q, k, res) ==
    LET bypass == q.bypass_ai \/ res.set_bypass
        base == [q EXCEPT !.bypass_ai = bypass, !.raised = res.raised,
                          !.invoked = q.invoked \cup {k}]
        next == [base EXCEPT !.idx = k + 1,
                     !.pc = IF k = Len(plugins) THEN "rag" ELSE "input"]
    IN
    IF res.raised THEN next
    ELSE IF res.is_none THEN next
    ELSE IF bypass
        THEN [base EXCEPT !.text = res.value, !.pc = "rag", !.short = k]
    ELSE [next EXCEPT !.text = res.value]

AfterInput(q, k, res) ==
    LET bypass == q.bypass_ai \/ res.set_bypass
        base == [q EXCEPT !.bypass_ai = bypass, !.raised = res.raised,
                          !.invoked = q.invoked \cup {k}]
        next == [base EXCEPT !.idx = k + 1,
                     !.pc = IF k = Len(plugins) THEN "rag" ELSE "input"]
    IN
    IF res.raised THEN next
    ELSE IF res.is_none THEN next
    ELSE IF bypass
        THEN [base EXCEPT !.text = res.value, !.pc = "rag", !.short = k]
    ELSE IF res.value = <<>>
        THEN [base EXCEPT !.text = res.value, !.pc = "rag", !.broke = k]
    ELSE [next EXCEPT !.text = res.value]

\* run_process_input_hooks: the loop reaches plugin idx; a disabled plugin
\* is passed over, an enabled one has process_input awaited
InputHook(r) ==
    LET q == req[r] k == q.idx IN
    /\ q.pc = "input"
    /\ IF ~plugins[k].enabled
         THEN req' = [req EXCEPT ![r] =
                [q EXCEPT !.idx = k + 1, !.raised = FALSE,
                          !.pc = IF k = Len(plugins) THEN "rag" ELSE "input"]]
         ELSE \E res \in ProcessInputResults(plugins[k].kind, q.text) :
                req' = [req EXCEPT ![r] =
                    [AfterInput(q, k, res) EXCEPT
                        !.last_repl = IF res.raised \/ res.is_none
                                        THEN q.last_repl ELSE res.value,
                        !.ctx_set = q.ctx_set \/ res.set_bypass,
                        !.empty_at =
                            IF ~res.raised /\ ~res.is_none
                                /\ res.value = <<>>
                                /\ ~(q.ctx_set \/ res.set_bypass)
                              THEN k ELSE q.empty_at,
                        !.raise_bypass_at =
                            IF res.raised /\ res.set_bypass
                                /\ q.raise_bypass_at = 0
                              THEN k ELSE q.raise_bypass_at]]
    /\ UNCHANGED <<runnerVars, plugin_states, user_prefs, store_calls, api_key, providers, plugins, conversations, nextConvId,
                   messages, clock>>

\* list.insert(-1, x): x goes before the last element
InsertAtEnd(m, x) == Append(m, x)

InsertBeforeLast(m, x) ==
    IF m = <<>> THEN <<x>>
    ELSE SubSeq(m, 1, Len(m) - 1) \o <<x>> \o <<m[Len(m)]>>

\* chat(), line 188: user_message.startswith("/rag "), on the text the
\* input phase returned
RagTriggered(q) == StartsWith(q.text, RagPrefix)

\* chat(), lines 186-195: the trigger is stripped and the retrieval awaited
RagSearch(r) ==
    LET q == req[r] IN
    /\ q.pc = "rag"
    /\ RagTriggered(q)
    /\ \E o \in RagOutcomes :
        req' = [req EXCEPT ![r] =
            [q EXCEPT !.pc = "assemble",
                      !.raised = FALSE,
                      !.rag_context = PerformRagSearch(o),
                      !.rag_outcome = RagOutcomeName(o),
                      !.user_message = SliceFrom(q.text, RagPrefixLen),
                      !.embed_calls = q.embed_calls + 1,
                      !.search_calls = q.search_calls
                            + (IF o.embed_ok THEN 1 ELSE 0)]]
    /\ UNCHANGED <<runnerVars, plugin_states, user_prefs, store_calls, api_key, providers, plugins, conversations, nextConvId,
                   messages, clock>>

\* chat(), lines 197-204: the list handed to the provider, for the user
\* message um
AssembleMessagesAlwaysSystem(q, um) ==
    InsertBeforeLast(
        Append(q.messages, [role |-> "user", content |-> um]),
        [role |-> "system", content |-> RagInstruction \o q.rag_context])

AssembleMessages(q, um) ==
    LET m == Append(q.messages, [role |-> "user", content |-> um])
    IN IF q.rag_context # <<>>
         THEN InsertBeforeLast(m, [role |-> "system",
                                   content |-> RagInstruction \o q.rag_context])
         ELSE m

\* chat(), line 207: process_context.get('bypass_ai', False)
BypassedNever(q) == FALSE

BypassedOnReplacement(q) == q.bypass_ai \/ q.text # q.message

BypassedOnEmptyText(q) == q.bypass_ai \/ q.text = <<>>

Bypassed(q) == q.bypass_ai

\* chat(), lines 197-216: assemble the provider input; when bypass_ai is set
\* store the text as a user message and answer with it
Assemble(r) ==
    LET q == req[r]
        \* without the trigger user_message is still the hook chain's text
        um == IF q.pc = "assemble" THEN q.user_message ELSE q.text
    IN
    /\ \/ q.pc = "assemble"
       \/ q.pc = "rag" /\ ~RagTriggered(q)
    /\ LET m == AssembleMessages(q, um) IN
       IF Bypassed(q)
         THEN \E now \in Timestamps(clock) :
              /\ messages' = AddMessage(messages, q.conversation_id, "user",
                                        um, "None", now)
              /\ clock' = now
              /\ req' = [req EXCEPT ![r] =
                    [q EXCEPT !.pc = "done", !.messages = m,
                              !.raised = FALSE, !.user_message = um,
                              !.response = um, !.status = 200]]
         ELSE /\ UNCHANGED <<messages, clock>>
              /\ req' = [req EXCEPT ![r] =
                    [q EXCEPT !.pc = "call_ai", !.messages = m,
                              !.raised = FALSE, !.user_message = um]]
    /\ UNCHANGED <<runnerVars, plugin_states, user_prefs, store_calls, api_key, providers, plugins, conversations, nextConvId>>

\* chat(), lines 218-225 and 250-253: the provider call and the mapping of
\* its exception to a status
CallAI(r) ==
    LET q == req[r] IN
    /\ q.pc = "call_ai"
    /\ \E net \in NetOutcomes, text \in ModelTexts :
        LET c == CallAi(providers, api_key, q.provider, net, text)
            counted == [q EXCEPT
                !.call_ai_calls = q.call_ai_calls + 1,
                !.generate_calls = q.generate_calls
                                    + (IF c.resolved THEN 1 ELSE 0),
                !.net_calls = q.net_calls + c.net_calls,
                !.net = IF c.net_calls = 0 THEN "none" ELSE net]
        IN
        IF c.exc = "none"
          THEN req' = [req EXCEPT ![r] =
                [counted EXCEPT !.pc = "output", !.ai_content = c.text,
                                !.model_text = c.text,
                                !.out_without = c.text, !.idx = 1]]
          ELSE \E st \in ExceptionStatuses(c.exc) :
                req' = [req EXCEPT ![r] =
                    [counted EXCEPT !.pc = "done", !.status = st,
                                    !.exc = c.exc]]
    /\ UNCHANGED <<runnerVars, plugin_states, user_prefs, store_calls, api_key, providers, plugins, conversations, nextConvId,
                   messages, clock>>

\* PluginManager.run_process_output_hooks, one iteration for an enabled
\* plugin: the text after process_output did op
AfterOutputRaiseClears(text, op) ==
    IF op = "raise" THEN <<>> ELSE ApplyOutputOp(op, text)

AfterOutput(text, op) ==
    IF op = "raise" THEN text
    ELSE IF op = "none" THEN text
    ELSE ApplyOutputOp(op, text)

\* run_process_output_hooks: the plugin the for loop goes to after plugin k,
\* given the text and the context flag after k's call; the loop has no
\* return and no break
NextOutputIndexEarlyExit(k, text, bypass) ==
    IF bypass \/ text = <<>> THEN Len(plugins) + 1 ELSE k + 1

NextOutputIndex(k, text, bypass) == k + 1

\* run_process_output_hooks: the loop reaches plugin idx
OutputHook(r) ==
    LET q == req[r] k == q.idx IN
    /\ q.pc = "output"
    /\ k <= Len(plugins)
    /\ IF ~plugins[k].enabled
         THEN req' = [req EXCEPT ![r] = [q EXCEPT !.idx = k + 1]]
         ELSE \E op \in ProcessOutputOps(plugins[k].kind) :
                req' = [req EXCEPT ![r] =
                    [q EXCEPT !.idx = NextOutputIndex(k,
                                        AfterOutput(q.ai_content, op),
                                        q.out_bypass_at # 0
                                            \/ OutputOpSetsBypass(op)),
                              !.ai_content = AfterOutput(q.ai_content, op),
                              !.out_invoked = Append(q.out_invoked, k),
                              !.out_empty_at =
                                  IF q.out_empty_at = 0
                                        /\ op \in {"empty", "bypass_empty"}
                                    THEN k ELSE q.out_empty_at,
                              !.out_bypass_at =
                                  IF q.out_bypass_at = 0
                                        /\ OutputOpSetsBypass(op)
                                    THEN k ELSE q.out_bypass_at,
                              !.out_raised = q.out_raised \/ op = "raise",
                              !.out_without =
                                  IF op = "raise" THEN q.out_without
                                  ELSE ApplyOutputOp(op, q.out_without)]]
    /\ UNCHANGED <<runnerVars, plugin_states, user_prefs, store_calls, api_key, providers, plugins, conversations, nextConvId,
                   messages, clock>>

\* chat(), lines 233-244: the rows a completed turn stores, at the
\* timestamps t1 and t2 of the two INSERTs
PersistTurnNoUser(msgs, q, t1, t2) ==
    AddMessage(msgs, q.conversation_id, "ai", q.ai_content, q.model, t2)

PersistTurnAiFirst(msgs, q, t1, t2) ==
    AddMessage(
        AddMessage(msgs, q.conversation_id, "ai", q.ai_content, q.model, t1),
        q.conversation_id, "user", q.user_message, "None", t2)

PersistTurn(msgs, q, t1, t2) ==
    AddMessage(
        AddMessage(msgs, q.conversation_id, "user", q.user_message, "None", t1),
        q.conversation_id, "ai", q.ai_content, q.model, t2)

\* chat(), lines 233-249: the output phase returned; store the turn, answer
Persist(r) ==
    LET q == req[r] IN
    /\ q.pc = "output"
    /\ q.idx > Len(plugins)
    /\ \E t1 \in Timestamps(clock) : \E t2 \in Timestamps(t1) :
        /\ messages' = PersistTurn(messages, q, t1, t2)
        /\ clock' = t2
    /\ req' = [req EXCEPT ![r] =
            [q EXCEPT !.pc = "done", !.response = q.ai_content,
                      !.status = 200,
                      !.first_row = Len(messages) + 1,
                      !.done_before = {s \in Reqs : req[s].first_row # 0}]]
    /\ UNCHANGED <<runnerVars, plugin_states, user_prefs, store_calls, api_key, providers, plugins, conversations, nextConvId>>

\* no chat request has been accepted yet
Quiet == \A r \in Reqs : req[r].pc = "idle"

\* PluginManager.enable_plugin and disable_plugin, as administrative calls
\* before the requests: the plugin's flag, plugin_states, and the save
SetEnabled(k, b) ==
    /\ Quiet
    /\ plugins' = [plugins EXCEPT ![k].enabled = b,
                                  ![k].last_set = StateName(b)]
    /\ plugin_states' = [plugin_states EXCEPT ![k] = StateName(b)]
    /\ user_prefs' = SavePluginSettings(user_prefs, plugin_states')
    /\ UNCHANGED <<runnerVars, api_key, providers, conversations, nextConvId,
                   messages, clock, req, store_calls>>

EnablePlugin(k) == SetEnabled(k, TRUE)

DisablePlugin(k) == SetEnabled(k, FALSE)

Next ==
    \/ \E r \in SeqReqs : ChatStart(r)
    \/ \E r \in SeqReqs : InputHook(r)
    \/ \E r \in SeqReqs : RagSearch(r)
    \/ \E r \in SeqReqs : Assemble(r)
    \/ \E r \in SeqReqs : CallAI(r)
    \/ \E r \in SeqReqs : OutputHook(r)
    \/ \E r \in SeqReqs : Persist(r)
    \/ \E k \in 1..NumPlugins : EnablePlugin(k)
    \/ \E k \in 1..NumPlugins : DisablePlugin(k)

Spec == Init /\ [][Next]_vars

\* ------------------------------------------------ two calls, long histories
\* A deployment with every credential configured and every discovered plugin
\* disabled in the saved plugin states; the database is empty or holds a
\* conversation of more than HistoryLimit rows.  A client sends one request and then, when it is
\* answered, a second one for the conversation of the first.
InitHistory ==
    /\ api_key = [p \in ProviderNames |-> TRUE]
    /\ providers = AIServiceManagerInit(api_key)
    /\ Administered([k \in 1..NumPlugins |-> "generic"],
                    [k \in 1..NumPlugins |-> FALSE])
    /\ \E n \in {0} \cup ((HistoryLimit + 1)..(HistoryLimit + MaxStored)) :
        Database(n)
    /\ req = [r \in Reqs |-> IdleReq]
    /\ CodeRunnerInit
    /\ store_calls = <<>>

FirstCall ==
    ChatStartWith("r1", UserTexts, ClientConversationIds, {"groq"})

SecondCall ==
    /\ req["r1"].pc = "done"
    /\ ChatStartWith("r2", UserTexts, {req["r1"].conversation_id}, {"groq"})

NextHistory ==
    \/ FirstCall
    \/ SecondCall
    \/ \E r \in Reqs : InputHook(r)
    \/ \E r \in Reqs : RagSearch(r)
    \/ \E r \in Reqs : Assemble(r)
    \/ \E r \in Reqs : CallAI(r)
    \/ \E r \in Reqs : OutputHook(r)
    \/ \E r \in Reqs : Persist(r)

SpecHistory == InitHistory /\ [][NextHistory]_vars

\* ------------------------------------------------------- the history API
\* conversation ids and roles a client of the history API names, and the
\* contents it stores
StoreConversationIds == {1, 2}
StoreRoles == {"user", "assistant", "ai"}
StoreTexts == { <<"x">>, <<"y">> }

InitStore ==
    /\ api_key = [p \in ProviderNames |-> TRUE]
    /\ providers = AIServiceManagerInit(api_key)
    /\ Administered([k \in 1..NumPlugins |-> "generic"],
                    [k \in 1..NumPlugins |-> FALSE])
    /\ \E n \in 0..MaxStored : Database(n)
    /\ req = [r \in Reqs |-> IdleReq]
    /\ CodeRunnerInit
    /\ store_calls = <<>>

\* ChatHistoryManager.create_conversation
CreateConversation ==
    /\ Len(store_calls) < MaxCalls
    /\ conversations' = conversations \cup {nextConvId}
    /\ nextConvId' = nextConvId + 1
    /\ store_calls' = Append(store_calls,
            [op |-> "create_conversation", conversation_id |-> nextConvId,
             role |-> "", content |-> <<>>, ok |-> TRUE, status |-> 200])
    /\ UNCHANGED <<runnerVars, plugin_states, user_prefs, api_key, providers, plugins, messages, clock, req>>

\* ChatHistoryManager.add_message, called with a role and a content
AddMessageCall(c, role, content) ==
    /\ Len(store_calls) < MaxCalls
    /\ IF InsertRefused(conversations, c, role)
         THEN UNCHANGED <<messages, clock>>
         ELSE \E now \in Timestamps(clock) :
                /\ messages' = AddMessage(messages, c, role, content, "None",
                                          now)
                /\ clock' = now
    /\ store_calls' = Append(store_calls,
            [op |-> "add_message", conversation_id |-> c, role |-> role,
             content |-> content,
             ok |-> ~InsertRefused(conversations, c, role), status |-> 0])
    /\ UNCHANGED <<runnerVars, plugin_states, user_prefs, api_key, providers, plugins, conversations, nextConvId,
                   req>>

\* DELETE /history/{conversation_id}: ChatHistoryManager.delete_conversation
\* reports whether a row of table conversations was deleted
DeleteConversationCall(c) ==
    /\ Len(store_calls) < MaxCalls
    /\ conversations' = conversations \ {c}
    /\ messages' = IF c \in conversations
                     THEN DeleteConversation(messages, c) ELSE messages
    /\ store_calls' = Append(store_calls,
            [op |-> "delete_conversation", conversation_id |-> c,
             role |-> "", content |-> <<>>, ok |-> c \in conversations,
             status |-> IF c \in conversations THEN 204 ELSE 404])
    /\ UNCHANGED <<runnerVars, plugin_states, user_prefs, api_key, providers, plugins, nextConvId, clock, req>>

\* GET /history/{conversation_id}: 404 when get_messages returns no row
GetConversationMessages(c) ==
    /\ Len(store_calls) < MaxCalls
    /\ store_calls' = Append(store_calls,
            [op |-> "get_messages", conversation_id |-> c,
             role |-> "", content |-> <<>>,
             ok |-> GetMessages(messages, c, 0) # <<>>,
             status |-> IF GetMessages(messages, c, 0) # <<>> THEN 200
                        ELSE 404])
    /\ UNCHANGED <<runnerVars, plugin_states, user_prefs, api_key, providers, plugins, conversations, nextConvId,
                   messages, clock, req>>

NextStore ==
    \/ CreateConversation
    \/ \E c \in StoreConversationIds, role \in StoreRoles,
          content \in StoreTexts : AddMessageCall(c, role, content)
    \/ \E c \in StoreConversationIds : DeleteConversationCall(c)
    \/ \E c \in StoreConversationIds : GetConversationMessages(c)

SpecStore == InitStore /\ [][NextStore]_vars

\* ------------------------------------------- store faults and cancellation
\* The chat pipeline with every credential configured, where an INSERT of
\* the history store can fail (sqlite3.OperationalError: database locked,
\* disk full) and the task of a request can be cancelled where it awaits.
InitFaults ==
    /\ Init
    /\ \A p \in ProviderNames : api_key[p]

\* chat(), lines 233-244, when the INSERT number failing of the two raises:
\* the rows stored, each add_message having committed on its own
PersistTurnFailing(msgs, q, failing, t1) ==
    IF failing = 1 THEN msgs
    ELSE AddMessage(msgs, q.conversation_id, "user", q.user_message, "None",
                    t1)

\* chat(), lines 233-253: the output phase returned and one of the two
\* add_message calls raises; except Exception answers 500
PersistFails(r) ==
    LET q == req[r] IN
    /\ q.pc = "output"
    /\ q.idx > Len(plugins)
    /\ \E failing \in {1, 2} : \E t1 \in Timestamps(clock) :
        /\ messages' = PersistTurnFailing(messages, q, failing, t1)
        /\ clock' = IF failing = 1 THEN clock ELSE t1
    /\ req' = [req EXCEPT ![r] =
            [q EXCEPT !.pc = "done", !.status = 500,
                      !.exc = "OperationalError"]]
    /\ UNCHANGED <<runnerVars, plugin_states, user_prefs, store_calls, api_key, providers, plugins, conversations,
                   nextConvId>>

\* chat(), lines 207-213: the add_message of the bypass branch raises,
\* outside the try; the framework answers 500
BypassPersistFails(r) ==
    LET q == req[r]
        um == IF q.pc = "assemble" THEN q.user_message ELSE q.text
    IN
    /\ \/ q.pc = "assemble"
       \/ q.pc = "rag" /\ ~RagTriggered(q)
    /\ Bypassed(q)
    /\ req' = [req EXCEPT ![r] =
            [q EXCEPT !.pc = "done", !.messages = AssembleMessages(q, um),
                      !.raised = FALSE, !.user_message = um,
                      !.status = 500, !.exc = "OperationalError"]]
    /\ UNCHANGED <<runnerVars, plugin_states, user_prefs, store_calls, api_key, providers, plugins, conversations,
                   nextConvId, messages, clock>>

\* the request is suspended in an await of chat(): a process_input or a
\* process_output of an enabled plugin, perform_rag_search, call_ai
Suspended(q) ==
    \/ q.pc = "input" /\ plugins[q.idx].enabled
    \/ q.pc = "rag" /\ RagTriggered(q)
    \/ q.pc = "call_ai"
    \/ q.pc = "output" /\ q.idx <= Len(plugins) /\ plugins[q.idx].enabled

\* asyncio.CancelledError raised at the await: a BaseException, which no
\* except Exception of the hook loops, of perform_rag_search, of the
\* providers or of chat() catches, so the coroutine ends there
AfterCancelSwallowed(q) == [q EXCEPT !.cancelled = TRUE]

AfterCancel(q) == [q EXCEPT !.pc = "cancelled", !.cancelled = TRUE]

\* the task running chat() is cancelled while it is suspended
Cancel(r) ==
    /\ Suspended(req[r])
    /\ ~req[r].cancelled
    /\ req' = [req EXCEPT ![r] = AfterCancel(req[r])]
    /\ UNCHANGED <<runnerVars, plugin_states, user_prefs, store_calls, api_key, providers, plugins, conversations,
                   nextConvId, messages, clock>>

NextFaults ==
    \/ Next
    \/ \E r \in SeqReqs : PersistFails(r)
    \/ \E r \in SeqReqs : BypassPersistFails(r)
    \/ \E r \in SeqReqs : Cancel(r)

SpecFaults == InitFaults /\ [][NextFaults]_vars

\* ------------------------------------------------- two concurrent requests
\* Two requests for conversation 1 run as tasks of the one event loop: a
\* task runs until it awaits (a hook of an enabled plugin, the retrieval,
\* the provider call) and the other may run then.  Every credential is
\* configured; the first discovered plugin is enabled.
InitConcurrent ==
    /\ api_key = [p \in ProviderNames |-> TRUE]
    /\ providers = AIServiceManagerInit(api_key)
    /\ Administered([k \in 1..NumPlugins |-> "generic"],
                    [k \in 1..NumPlugins |-> k = 1])
    /\ \E n \in 1..MaxStored : Database(n)
    /\ req = [r \in Reqs |-> IdleReq]
    /\ CodeRunnerInit
    /\ store_calls = <<>>

\* each client sends a retrieval request; the enabled plugin may replace it
ConcurrentCall(r) ==
    ChatStartWith(r, {t \in UserTexts : StartsWith(t, RagPrefix)}, {1},
                  {"groq"})

NextConcurrent ==
    \/ \E r \in Reqs : ConcurrentCall(r)
    \/ \E r \in Reqs : InputHook(r)
    \/ \E r \in Reqs : RagSearch(r)
    \/ \E r \in Reqs : Assemble(r)
    \/ \E r \in Reqs : CallAI(r)
    \/ \E r \in Reqs : OutputHook(r)
    \/ \E r \in Reqs : Persist(r)

SpecConcurrent == InitConcurrent /\ [][NextConcurrent]_vars

\* ------------------------------------------------ plugin states, restarts
\* the prefs.json files the program writes: no plugin entry, or the states
\* saved by an earlier run
PrefsFiles ==
    {{}} \cup {SavePluginSettings({}, ps) :
                    ps \in [1..NumPlugins -> {"absent", "True", "False"}]}

\* PluginManager.__init__: load the states, then discover the plugins
Discovered(order, states) ==
    [k \in 1..NumPlugins |->
        [kind |-> order[k], enabled |-> InitialState(states, k),
         last_set |-> "none"]]

\* a process started on a prefs.json of an earlier run, before any request
InitPlugins ==
    /\ api_key = [p \in ProviderNames |-> TRUE]
    /\ providers = AIServiceManagerInit(api_key)
    /\ user_prefs \in PrefsFiles
    /\ plugin_states = LoadInitialSettings(user_prefs)
    /\ \E order \in PluginOrders : plugins = Discovered(order, plugin_states)
    /\ Database(0)
    /\ req = [r \in Reqs |-> IdleReq]
    /\ CodeRunnerInit
    /\ store_calls = <<>>

\* the server is stopped and started again: ConfigManager reads prefs.json
\* and a new PluginManager is built from it; the plugin files are the same
Restart ==
    /\ Quiet
    /\ plugin_states' = LoadInitialSettings(user_prefs)
    /\ plugins' = [k \in 1..NumPlugins |->
                    [plugins[k] EXCEPT
                        !.enabled = InitialState(plugin_states', k)]]
    /\ UNCHANGED <<runnerVars, user_prefs, api_key, providers, conversations,
                   nextConvId, messages, clock, req, store_calls>>

NextPlugins ==
    \/ \E k \in 1..NumPlugins : EnablePlugin(k)
    \/ \E k \in 1..NumPlugins : DisablePlugin(k)
    \/ Restart

SpecPlugins == InitPlugins /\ [][NextPlugins]_vars

\* ------------------------------------------------- the provider variants
\* Requests to each registered provider, under every combination of
\* configured credentials; the plugins are disabled and the database is new.
InitProviders ==
    /\ api_key \in [ProviderNames -> BOOLEAN]
    /\ providers = AIServiceManagerInit(api_key)
    /\ Administered([k \in 1..NumPlugins |-> "generic"],
                    [k \in 1..NumPlugins |-> FALSE])
    /\ Database(0)
    /\ req = [r \in Reqs |-> IdleReq]
    /\ CodeRunnerInit
    /\ store_calls = <<>>

ProviderCall(r) ==
    ChatStartWith(r, UserTexts, {0}, ProviderNames \cup RequestProviders)

NextProviders ==
    \/ \E r \in SeqReqs : ProviderCall(r)
    \/ \E r \in SeqReqs : InputHook(r)
    \/ \E r \in SeqReqs : RagSearch(r)
    \/ \E r \in SeqReqs : Assemble(r)
    \/ \E r \in SeqReqs : CallAI(r)
    \/ \E r \in SeqReqs : OutputHook(r)
    \/ \E r \in SeqReqs : Persist(r)

SpecProviders == InitProviders /\ [][NextProviders]_vars

\* ------------------------------------------- the code runner's commands
\* CodeRunnerPlugin.process_output, replace_code_block: a code block of the
\* model's text is stored under a new id
RegisterCodeBlock ==
    /\ generated < NumIds
    /\ generated' = generated + 1
    /\ pending_code' = pending_code \cup {generated + 1}
    /\ UNCHANGED <<run_count, commands>>
    /\ UNCHANGED <<api_key, providers, plugins, conversations, nextConvId,
                   messages, clock, req, store_calls, plugin_states,
                   user_prefs>>

\* dict.pop(request_id)
PopKept(pending, id) == pending

Pop(pending, id) == pending \ {id}

\* process_input, lines 47-50 and 68-69: "/execute <id>" up to the await
\* of run_code, or to the return when the id is not in the table
ExecuteCommand(c, id) ==
    /\ commands[c].pc = "idle"
    /\ IF id \in pending_code
         THEN /\ pending_code' = Pop(pending_code, id)
              /\ run_count' = [run_count EXCEPT ![id] = @ + 1]
              /\ commands' = [commands EXCEPT ![c] =
                    [IdleCommand EXCEPT !.pc = "running",
                                        !.kind = "execute", !.id = id]]
         ELSE /\ UNCHANGED <<pending_code, run_count>>
              /\ commands' = [commands EXCEPT ![c] =
                    [IdleCommand EXCEPT !.pc = "done", !.kind = "execute",
                                        !.id = id, !.reply = InvalidId,
                                        !.bypass_ai = TRUE]]
    /\ UNCHANGED generated
    /\ UNCHANGED <<api_key, providers, plugins, conversations, nextConvId,
                   messages, clock, req, store_calls, plugin_states,
                   user_prefs>>

\* process_input, lines 51-67: run_code returned or raised
RunCodeReturns(c) ==
    /\ commands[c].pc = "running"
    /\ \E reply \in RunReplies :
        commands' = [commands EXCEPT ![c].pc = "done", ![c].reply = reply,
                                     ![c].bypass_ai = TRUE]
    /\ UNCHANGED <<pending_code, generated, run_count>>
    /\ UNCHANGED <<api_key, providers, plugins, conversations, nextConvId,
                   messages, clock, req, store_calls, plugin_states,
                   user_prefs>>

\* process_input, lines 71-76: "/deny <id>"
DenyCommand(c, id) ==
    /\ commands[c].pc = "idle"
    /\ pending_code' = IF id \in pending_code THEN Pop(pending_code, id)
                       ELSE pending_code
    /\ commands' = [commands EXCEPT ![c] =
            [IdleCommand EXCEPT !.pc = "done", !.kind = "deny", !.id = id,
                                !.reply = Cancelled, !.bypass_ai = TRUE]]
    /\ UNCHANGED <<generated, run_count>>
    /\ UNCHANGED <<api_key, providers, plugins, conversations, nextConvId,
                   messages, clock, req, store_calls, plugin_states,
                   user_prefs>>

\* process_input, line 78: any other text
OtherText(c) ==
    /\ commands[c].pc = "idle"
    /\ commands' = [commands EXCEPT ![c] =
            [IdleCommand EXCEPT !.pc = "done", !.kind = "other"]]
    /\ UNCHANGED <<pending_code, generated, run_count>>
    /\ UNCHANGED <<api_key, providers, plugins, conversations, nextConvId,
                   messages, clock, req, store_calls, plugin_states,
                   user_prefs>>

\* One CodeRunnerPlugin instance with an E2B key: code blocks are registered
\* and commands naming generated ids are served, the commands interleaving
\* at the await of run_code.
InitCodeRunner ==
    /\ api_key = [p \in ProviderNames |-> TRUE]
    /\ providers = AIServiceManagerInit(api_key)
    /\ Administered([k \in 1..NumPlugins |-> "generic"],
                    [k \in 1..NumPlugins |-> TRUE])
    /\ Database(0)
    /\ req = [r \in Reqs |-> IdleReq]
    /\ CodeRunnerInit
    /\ store_calls = <<>>

NextCodeRunner ==
    \/ RegisterCodeBlock
    \/ \E c \in Commands, id \in 1..generated : ExecuteCommand(c, id)
    \/ \E c \in Commands : RunCodeReturns(c)
    \/ \E c \in Commands, id \in 1..generated : DenyCommand(c, id)
    \/ \E c \in Commands : OtherText(c)

SpecCodeRunner == InitCodeRunner /\ [][NextCodeRunner]_vars

\* ------------------------------------------------------ the output phase
\* Requests through units that override process_output only, enabled or
\* not, with every provider configured and a new database.
OutputTexts == { <<"h", "i">> }

InitOutput ==
    /\ api_key = [p \in ProviderNames |-> TRUE]
    /\ providers = AIServiceManagerInit(api_key)
    /\ \E en \in [1..NumPlugins -> BOOLEAN] :
        Administered([k \in 1..NumPlugins |-> "transformer"], en)
    /\ Database(0)
    /\ req = [r \in Reqs |-> IdleReq]
    /\ CodeRunnerInit
    /\ store_calls = <<>>

TransformedCall(r) == ChatStartWith(r, OutputTexts, {0}, {"groq"})

NextOutput ==
    \/ \E r \in SeqReqs : TransformedCall(r)
    \/ \E r \in SeqReqs : InputHook(r)
    \/ \E r \in SeqReqs : Assemble(r)
    \/ \E r \in SeqReqs : CallAI(r)
    \/ \E r \in SeqReqs : OutputHook(r)
    \/ \E r \in SeqReqs : Persist(r)

SpecOutput == InitOutput /\ [][NextOutput]_vars

TypeOK ==
    /\ \A r \in Reqs : req[r].pc \in
         {"idle", "input", "rag", "assemble", "call_ai", "output", "done",
          "cancelled"}
    /\ \A r \in Reqs : req[r].status \in {0, 200, 400, 500}

\* ------------------------------------------------------------------ claims
\* the request has left the input phase
PastInput(q) == q.pc \in {"rag", "assemble", "call_ai", "output", "done"}

\* the rows of table messages stored since the request began
Added(q) == SubSeq(messages, Len(q.base) + 1, Len(messages))

\* the enabled plugins among the first n
EnabledUpTo(n) == {k \in 1..n : plugins[k].enabled}

\* C1: when bypass_ai is set at the end of the input phase the provider is
\* never invoked for the request; "/hello", taken by the example command
\* plugin, is answered "Plugin Response: Hello there!" without a provider call
C1_BypassNeverInvokesProvider ==
    \A r \in Reqs : LET q == req[r] IN
        /\ (PastInput(q) /\ q.bypass_ai) =>
              /\ q.pc \notin {"call_ai", "output"}
              /\ q.call_ai_calls = 0
              /\ q.generate_calls = 0
              /\ q.net_calls = 0
        /\ (q.pc = "done" /\ q.short # 0
                /\ plugins[IF q.short = 0 THEN 1 ELSE q.short].kind
                     = "simple_command") =>
              /\ q.status = 200
              /\ q.response = HelloResponse
              /\ q.call_ai_calls = 0

C1_Witness ==
    \E r \in Reqs : LET q == req[r] IN
        /\ q.pc = "done"
        /\ q.message = HelloCommand
        /\ q.short # 0
        /\ q.bypass_ai
        /\ q.response = HelloResponse
        /\ q.call_ai_calls = 0

\* C2: if plugin i sets bypass_ai and returns text R, no plugin after i is
\* invoked, every enabled plugin before i was invoked, and the response of
\* the chat operation equals R
C2_ShortCircuitResponseIsR ==
    \A r \in Reqs : LET q == req[r] IN
        (q.pc = "done" /\ q.short # 0) =>
            /\ q.invoked = EnabledUpTo(q.short)
            /\ q.status = 200
            /\ q.response = q.text

\* C3: when the input phase ends with bypass_ai set, no retrieval is made
\* and the text the hook chain returned is answered as it is, also when it
\* begins with "/rag "
C3_BypassSkipsRag ==
    \A r \in Reqs : LET q == req[r] IN
        (PastInput(q) /\ q.bypass_ai) =>
            /\ q.embed_calls = 0
            /\ q.search_calls = 0
            /\ q.pc # "assemble"
            /\ q.pc = "done" => q.response = q.text

\* C4: a chat call that returns successfully stores exactly one user row,
\* followed by exactly one ai row unless the request was bypassed, and leaves
\* every other row as it was
C4_OneUserOneAssistant ==
    \A r \in Reqs : LET q == req[r] a == Added(q) IN
        (q.pc = "done" /\ q.status = 200) =>
            /\ SubSeq(messages, 1, Len(q.base)) = q.base
            /\ Len(a) = IF q.bypass_ai THEN 1 ELSE 2
            /\ a[1].role = "user"
            /\ a[1].conversation_id = q.conversation_id
            /\ ~q.bypass_ai =>
                 /\ a[2].role = "ai"
                 /\ a[2].conversation_id = q.conversation_id

C4_Witness ==
    \E r \in Reqs : LET q == req[r] IN
        /\ q.pc = "done"
        /\ q.status = 200
        /\ ~q.bypass_ai
        /\ q.base # <<>>
        /\ Len(messages) = Len(q.base) + 2

\* the provider call failed for a missing credential, or for a network
\* error or a non-2xx reply of its one request
ProviderFailed(q) ==
    /\ q.pc = "done"
    /\ q.exc # "none"
    /\ q.generate_calls = 1
    /\ \/ q.net_calls = 0
       \/ q.net \in {"request_error", "http_status_error"}

\* C5: when the provider call fails (missing credential, network error,
\* non-2xx reply) the request ends with status 400 and stores no row
C5_ProviderFailureLeavesNoTrace ==
    \A r \in Reqs : LET q == req[r] IN
        /\ ProviderFailed(q) => (q.status = 400 /\ messages = q.base)
        /\ (q.pc = "done" /\ q.exc # "none") => messages = q.base

C5_Witness ==
    \E r \in Reqs : LET q == req[r] IN
        /\ ProviderFailed(q)
        /\ q.net = "http_status_error"
        /\ q.status = 400
        /\ q.base # <<>>

\* C6: a request naming a provider that is not registered fails with a
\* client error and nothing is stored for it: no conversation, no row; no
\* provider is invoked
C6_UnknownProviderNoPersistence ==
    \A r \in Reqs : LET q == req[r] IN
        (q.pc # "idle" /\ LowerName(q.provider) \notin providers) =>
            /\ conversations = q.base_convs
            /\ messages = q.base
            /\ q.generate_calls = 0
            /\ q.pc = "done" => q.status = 400

\* C7: when an enabled plugin's process_input raises, the request does not
\* fail, the text stays as it was before the call and the loop goes on to
\* the next plugin; unless a plugin ends the phase by bypass or by the empty
\* string, every enabled plugin is invoked, raising ones included
C7_InputRaiseIsolated ==
    /\ [][\A r \in Reqs :
            (req[r].pc = "input" /\ req'[r].raised) =>
                /\ req'[r].text = req[r].text
                /\ req'[r].status = 0
                /\ req'[r].exc = "none"
                /\ req'[r].idx = req[r].idx + 1
                /\ req'[r].invoked = req[r].invoked \cup {req[r].idx}
                /\ req'[r].pc = IF req[r].idx = Len(plugins) THEN "rag"
                                ELSE "input"]_vars
    /\ [](\A r \in Reqs :
            (PastInput(req[r]) /\ req[r].short = 0 /\ req[r].broke = 0) =>
                req[r].invoked = EnabledUpTo(Len(plugins)))

C7_Witness ==
    \E r \in Reqs : LET q == req[r] IN
        /\ q.pc = "input"
        /\ q.raised
        /\ plugins[q.idx].enabled

\* C8: when a plugin's process_output raises the request still succeeds, and
\* the text stored as the ai row and answered is the text the output phase
\* yields with the raising plugins taken out
C8_OutputRaiseIsolated ==
    \A r \in Reqs : LET q == req[r] IN
        q.out_raised =>
            /\ q.exc = "none"
            /\ q.status \in {0, 200}
            /\ q.ai_content = q.out_without
            /\ q.pc = "done" =>
                 /\ q.status = 200
                 /\ q.response = q.out_without
                 /\ messages[Len(messages)].role = "ai"
                 /\ messages[Len(messages)].content = q.out_without

C8_Witness ==
    \E r \in Reqs : LET q == req[r] IN
        /\ q.pc = "done"
        /\ q.out_raised
        /\ q.response # q.model_text
        /\ q.response = q.out_without

\* C9: when no plugin sets bypass_ai and none returns the empty string, the
\* request cannot end without the provider call having been made, exactly
\* once, and a registered provider's generate having run exactly once
C9_NoShortCircuitReachesProvider ==
    \A r \in Reqs : LET q == req[r] IN
        (PastInput(q) /\ ~q.bypass_ai /\ q.broke = 0) =>
            /\ q.pc \in {"rag", "assemble", "call_ai"} => q.call_ai_calls = 0
            /\ q.pc \in {"output", "done"} =>
                 /\ q.call_ai_calls = 1
                 /\ q.generate_calls =
                      IF LowerName(q.provider) \in providers THEN 1 ELSE 0

C9_Witness ==
    \E r \in Reqs : LET q == req[r] IN
        /\ q.pc = "done"
        /\ ~q.bypass_ai
        /\ q.broke = 0
        /\ Cardinality(q.invoked) >= 2
        /\ q.text # q.message
        /\ q.call_ai_calls = 1

\* C10: for a text of the input phase that does not begin with "/rag ", the
\* list passed to the provider is the projected history followed by one
\* user message, with no system message inserted
C10_NoTriggerNoSystemMessage ==
    \A r \in Reqs : LET q == req[r] IN
        (/\ \/ q.pc \in {"call_ai", "output"}
            \/ q.pc = "done" /\ q.call_ai_calls = 1
         /\ ~StartsWith(q.text, RagPrefix)) =>
            q.messages = Project(q.history)
                            \o <<[role |-> "user", content |-> q.text]>>

C10_Witness ==
    \E r \in Reqs : LET q == req[r] IN
        /\ q.pc = "output"
        /\ ~StartsWith(q.text, RagPrefix)
        /\ q.history # <<>>
        /\ q.text # q.message
        /\ Len(q.messages) = Len(q.history) + 1

\* the retrieval of the request failed or matched nothing
RetrievalEmpty(q) == q.rag_outcome \in {"embed_error", "search_error", "no_match"}

LastN(s, n) == IF Len(s) <= n THEN s ELSE SubSeq(s, Len(s) - n + 1, Len(s))

\* the listing of the request's conversation as the database was when the
\* request began
ListingAtStart(q) == GetMessages(q.base, q.conversation_id, 0)

\* C12: the history loaded for a request is the latest HistoryLimit = 10
\* rows of its conversation, oldest first, and the provider is given their
\* projection; of more than 10 rows the latest 10, not the earliest 10
C12_HistoryIsMostRecent ==
    \A r \in Reqs : LET q == req[r] IN
        q.pc # "idle" =>
            /\ q.history = LastN(ListingAtStart(q), HistoryLimit)
            /\ q.pc \in {"call_ai", "output"} =>
                 SubSeq(q.messages, 1, Len(q.history)) = Project(q.history)

\* the two rows a completed turn shows in a listing
TurnOf(q) ==
    <<[role |-> "user", content |-> q.user_message],
      [role |-> "ai", content |-> q.ai_content]>>

\* both calls of the client were answered 200 after a provider call
BothCallsDone ==
    /\ \A r \in Reqs : req[r].pc = "done" /\ req[r].status = 200
                            /\ ~req[r].bypass_ai
    /\ req["r2"].conversation_id = req["r1"].conversation_id

AppendedUserThenAssistant ==
    /\ Len(store_calls) >= 2
    /\ LET a == store_calls[Len(store_calls) - 1]
           b == store_calls[Len(store_calls)]
       IN /\ a.op = "add_message" /\ a.role = "user"
          /\ b.op = "add_message" /\ b.role = "assistant"
          /\ a.conversation_id = b.conversation_id

\* C14: after a message of role user and then a message of role assistant
\* are appended to a conversation, the listing of the conversation ends
\* with these two messages, in this order, with the roles and contents
\* that were appended
C14_StoreRoundTrip ==
    AppendedUserThenAssistant =>
        LET a == store_calls[Len(store_calls) - 1]
            b == store_calls[Len(store_calls)]
            listing == Project(GetMessages(messages, a.conversation_id, 0))
        IN  /\ Len(listing) >= 2
            /\ SubSeq(listing, Len(listing) - 1, Len(listing))
                 = <<[role |-> a.role, content |-> a.content],
                     [role |-> b.role, content |-> b.content]>>

\* C15: after delete_conversation(c) has deleted conversation c, no row of
\* table messages has conversation_id = c
C15_CascadeDelete ==
    (store_calls # <<>>
        /\ store_calls[Len(store_calls)].op = "delete_conversation"
        /\ store_calls[Len(store_calls)].ok) =>
        \A i \in 1..Len(messages) :
            messages[i].conversation_id
                # store_calls[Len(store_calls)].conversation_id

\* the request names a conversation id of which table conversations had no
\* row when the request began
NamesMissingConversation(q) ==
    /\ q.pc # "idle"
    /\ q.conversation_id_in # 0
    /\ q.conversation_id_in \notin q.base_convs

\* C16: a chat request that names a conversation id for which there is no
\* conversation is answered 404 and stores no row under that id
C16_MissingConversationNotFound ==
    \A r \in Reqs : LET q == req[r] IN
        NamesMissingConversation(q) =>
            /\ \A i \in 1..Len(messages) :
                    messages[i].conversation_id # q.conversation_id_in
            /\ q.pc = "done" => q.status = 404

\* C20: after the registration at startup a provider whose credential is
\* missing is not in the registry, and every provider in the registry has a
\* credential
C20_RegistryHasCredentials ==
    \A p \in ProviderNames :
        /\ ~api_key[p] => p \notin providers
        /\ p \in providers => api_key[p]

\* C17: when one of the two INSERTs of a turn that was not bypassed fails,
\* the request fails and the database is as it was when the request began:
\* it holds neither the user row nor the ai row of the turn
C17_NoPartialTurn ==
    \A r \in Reqs : LET q == req[r] IN
        (q.pc = "done" /\ q.exc = "OperationalError" /\ ~q.bypass_ai) =>
            /\ q.status = 500
            /\ messages = q.base

\* C19: a request cancelled while it awaits an input hook, the retrieval,
\* the provider call or an output hook ends there: it stores no row, it is
\* not answered, and the provider call, if it was made, was made once
C19_CancelledStoresNothing ==
    \A r \in Reqs : LET q == req[r] IN
        q.cancelled =>
            /\ q.pc = "cancelled"
            /\ messages = q.base
            /\ \A i \in 1..Len(messages) :
                    ~(i > Len(q.base) /\ messages[i].role = "ai")
            /\ q.status = 0
            /\ q.call_ai_calls <= 1
            /\ q.generate_calls <= 1
            /\ q.net_calls <= 1

C19_Witness ==
    \E r \in Reqs : LET q == req[r] IN
        /\ q.cancelled
        /\ q.pc = "cancelled"
        /\ q.call_ai_calls = 1
        /\ q.ai_content # <<>>
        /\ q.idx > 1
        /\ q.base # <<>>
        /\ messages = q.base

\* the request stored a whole turn and was answered 200
StoredTurn(q) == q.pc = "done" /\ q.status = 200 /\ ~q.bypass_ai

C21_EnableStateSurvivesRestart ==
    \A k \in 1..NumPlugins :
        plugins[k].last_set # "none" =>
            plugins[k].enabled = (plugins[k].last_set = "True")

\* C22: generate of every provider variant tests the credential first:
\* without one it raises the configuration error (a ValueError, answered
\* 400) and issues no network request; with one it issues exactly one
\* request per call, also when the request fails
C22_CredentialCheckedFirst ==
    \A r \in Reqs : LET q == req[r] name == LowerName(q.provider) IN
        /\ q.generate_calls <= 1
        /\ q.net_calls <= q.generate_calls
        /\ q.generate_calls = 1 =>
             /\ name \in ProviderNames
             /\ ~api_key[name] =>
                  /\ q.net_calls = 0
                  /\ q.pc = "done"
                  /\ q.exc = "ValueError"
                  /\ q.status = 400
             /\ api_key[name] => q.net_calls = 1

C22_Witness ==
    \E r \in Reqs : LET q == req[r] IN
        /\ q.pc = "done"
        /\ q.provider = "together"
        /\ ~api_key["together"]
        /\ api_key["groq"]
        /\ q.generate_calls = 1
        /\ q.net_calls = 0
        /\ q.status = 400

\* C23: in the input phase process_input is called on the enabled plugins
\* only, in registration order, each with the text the most recent non-null
\* result replaced (the request's message before any) and with the context
\* holding the earlier calls' writes; when no plugin short-circuits, the
\* phase returns the last non-null result, or the message when there is none
C23_InputPhaseOrdering ==
    /\ [](\A r \in Reqs : LET q == req[r] IN
            q.pc # "idle" =>
                /\ q.text = q.last_repl
                /\ q.bypass_ai = q.ctx_set
                /\ q.invoked \subseteq EnabledUpTo(Len(plugins))
                /\ q.pc = "input" => q.invoked = EnabledUpTo(q.idx - 1)
                /\ (PastInput(q) /\ q.short = 0 /\ q.broke = 0) =>
                     q.invoked = EnabledUpTo(Len(plugins)))
    /\ [][\A r \in Reqs :
            req[r].pc = "input" =>
                LET k == req[r].idx IN
                /\ \A j \in req[r].invoked : j < k
                /\ req'[r].invoked =
                     IF plugins[k].enabled THEN req[r].invoked \cup {k}
                     ELSE req[r].invoked]_vars

C23_Witness ==
    \E r \in Reqs : LET q == req[r] IN
        /\ q.pc = "rag"
        /\ q.short = 0
        /\ q.broke = 0
        /\ Cardinality(q.invoked) >= 2
        /\ q.text # q.message
        /\ q.text = q.last_repl
        /\ q.raised

\* C25: when an enabled plugin's process_input returns the empty string and
\* bypass_ai is not set, the input phase ends with that call: no later
\* plugin is called and the phase returns the empty text
C25_EmptyStringEndsInputPhase ==
    \A r \in Reqs : LET q == req[r] IN
        q.empty_at # 0 =>
            /\ PastInput(q)
            /\ q.invoked = EnabledUpTo(q.empty_at)
            /\ q.text = <<>>
            /\ ~q.bypass_ai

C25_Witness ==
    \E r \in Reqs : LET q == req[r] IN
        /\ q.pc = "rag"
        /\ q.empty_at # 0
        /\ q.empty_at < Len(plugins)
        /\ \A k \in (q.empty_at + 1)..Len(plugins) :
                plugins[k].enabled /\ k \notin q.invoked
        /\ q.text = <<>>

\* the request's list has been handed to call_ai
HandedToProvider(q) == q.pc = "call_ai" \/ q.call_ai_calls > 0

\* the system messages of a list
SystemMessages(m) == {i \in 1..Len(m) : m[i].role = "system"}

\* C26: when the text the input phase returned begins with the RAG trigger
\* and the retrieval returned a non-empty text, the list handed to the
\* provider is the projected history, then one system message holding the
\* retrieved text, then the user message with the trigger stripped; the
\* system message is the only one and stands right before the user message
C26_RagContextBeforeFinalUserMessage ==
    \A r \in Reqs : LET q == req[r] m == q.messages IN
        (HandedToProvider(q) /\ RagTriggered(q) /\ q.rag_context # <<>>) =>
            /\ m = Project(q.history)
                    \o <<[role |-> "system",
                          content |-> RagInstruction \o q.rag_context]>>
                    \o <<[role |-> "user",
                          content |-> SliceFrom(q.text, RagPrefixLen)]>>
            /\ SystemMessages(m) = {Len(m) - 1}
            /\ m[Len(m)].role = "user"

C26_Witness ==
    \E r \in Reqs : LET q == req[r] IN
        /\ q.pc = "call_ai"
        /\ RagTriggered(q)
        /\ q.rag_outcome = "hit"
        /\ q.rag_context # <<>>
        /\ q.history # <<>>
        /\ Len(q.messages) = Len(q.history) + 2

\* the text chat() forwards as the final user message: the text the input
\* phase returned, without the RAG trigger
ForwardedText(q) ==
    IF RagTriggered(q) THEN SliceFrom(q.text, RagPrefixLen) ELSE q.text

\* the two rows a completed turn stored are a user row holding the final
\* user message of the provider's list and a row of role `role` holding the
\* response, tagged with the request's model
PersistedTurnIs(q, role) ==
    /\ q.first_row + 1 <= Len(messages)
    /\ LET a == messages[q.first_row]
           b == messages[q.first_row + 1]
       IN /\ a.role = "user"
          /\ a.conversation_id = q.conversation_id
          /\ a.content = ForwardedText(q)
          /\ a.content = q.messages[Len(q.messages)].content
          /\ a.model_used = "None"
          /\ b.role = role
          /\ b.conversation_id = q.conversation_id
          /\ b.content = q.response
          /\ b.content = q.ai_content
          /\ b.model_used = q.model

\* C27: a successful turn that was not bypassed stores, in this order, a
\* user message holding the text forwarded to the provider and an
\* assistant-role message holding the response, with model_used the
\* request's model
C27_PersistedTurnUserThenAssistant ==
    \A r \in Reqs : StoredTurn(req[r]) => PersistedTurnIs(req[r], "assistant")

\* the same with the role the code writes
C27_PersistedTurnUserThenAi ==
    \A r \in Reqs : StoredTurn(req[r]) => PersistedTurnIs(req[r], "ai")

C27_TurnStoredAfterOutputHooks ==
    \E r \in Reqs : LET q == req[r] IN
        /\ StoredTurn(q)
        /\ RagTriggered(q)
        /\ q.text # q.message
        /\ q.ai_content # q.model_text

\* C29: when a process_input returned the empty string and bypass_ai was
\* never set, the request is not answered without the provider: call_ai is
\* invoked once, with a final user message of empty content, and a
\* completed turn stores a user row of empty content and the row of the reply
C29_EmptyTextStillReachesProvider ==
    \A r \in Reqs : LET q == req[r] IN
        q.empty_at # 0 =>
            /\ ~q.bypass_ai
            /\ q.pc \in {"output", "done"} => q.call_ai_calls = 1
            /\ HandedToProvider(q) =>
                    q.messages = Append(Project(q.history),
                                        [role |-> "user", content |-> <<>>])
            /\ (q.pc = "done" /\ q.status = 200) =>
                    /\ q.first_row + 1 <= Len(messages)
                    /\ Project(SubSeq(messages, q.first_row, q.first_row + 1))
                         = <<[role |-> "user", content |-> <<>>],
                             [role |-> "ai", content |-> q.response]>>
                    /\ Len(messages) >= Len(q.base) + 2

C29_Witness ==
    \E r \in Reqs : LET q == req[r] IN
        /\ q.empty_at # 0
        /\ q.message # <<>>
        /\ q.pc = "done" /\ q.status = 200
        /\ q.call_ai_calls = 1
        /\ messages[q.first_row].content = <<>>
        /\ q.response # <<>>

\* a plugin's process_input wrote bypass_ai and raised: the flag is set
\* from then on, the provider is not invoked, and the request is answered
\* 200 with `answer`
BypassKeptAfterRaise(q, answer) ==
    q.raise_bypass_at # 0 =>
        /\ q.bypass_ai
        /\ q.raise_bypass_at \in q.invoked
        /\ q.pc \notin {"call_ai", "output"}
        /\ q.call_ai_calls = 0
        /\ q.pc = "done" => (q.status = 200 /\ q.response = answer)

\* the raising call leaves the text as it stood, and a later call changes
\* it only by the replacement at which the phase stops
TextKeptAfterRaise(r) ==
    LET q == req[r] p == req'[r] IN
    /\ (q.raise_bypass_at = 0 /\ p.raise_bypass_at # 0) =>
            (p.text = q.text /\ p.bypass_ai)
    /\ (q.raise_bypass_at # 0 /\ q.pc = "input" /\ p.text # q.text) =>
            (p.pc = "rag" /\ p.short = q.idx /\ p.text = p.last_repl)

\* C30: when a process_input sets bypass_ai and then raises, the text is
\* left unchanged and the flag stays set, so the provider is not invoked
\* and the response is the text as it stood before that plugin, or as
\* replaced by a later plugin, at whose replacement the phase stops
C30_BypassSetBeforeRaiseAnswersText ==
    /\ [](\A r \in Reqs : BypassKeptAfterRaise(req[r], req[r].text))
    /\ [][\A r \in Reqs : TextKeptAfterRaise(r)]_vars

\* the same with the response chat() gives, the text without the RAG trigger
C30_BypassSetBeforeRaiseAnswersStripped ==
    /\ [](\A r \in Reqs : BypassKeptAfterRaise(req[r], ForwardedText(req[r])))
    /\ [][\A r \in Reqs : TextKeptAfterRaise(r)]_vars

C30_AnsweredAfterRaise ==
    \E r \in Reqs : LET q == req[r] IN
        /\ q.raise_bypass_at # 0
        /\ q.pc = "done"
        /\ q.short = 0
        /\ q.response = q.message

\* the enabled plugins among the first n, in registration order
EnabledInOrder(n) ==
    SelectSeq([k \in 1..n |-> k], LAMBDA k : plugins[k].enabled)

\* C24: the output phase calls process_output of every enabled plugin once,
\* in registration order, also after a plugin wrote bypass_ai into the
\* context or returned the empty string: while the phase runs the calls made
\* are those of the enabled plugins passed, the phase returns only after the
\* last plugin, and only the input phase records an early exit
C24_OutputPhaseRunsEveryPlugin ==
    /\ [](\A r \in Reqs : LET q == req[r] IN
            /\ q.pc = "output" =>
                  /\ q.idx \in 1..(Len(plugins) + 1)
                  /\ q.out_invoked = EnabledInOrder(q.idx - 1)
            /\ (q.pc = "done" /\ q.call_ai_calls > 0 /\ q.status = 200) =>
                  q.out_invoked = EnabledInOrder(Len(plugins))
            /\ q.pc \notin {"output", "done"} => q.out_invoked = <<>>)
    /\ [][\A r \in Reqs : LET q == req[r] p == req'[r] IN
            /\ (p.short # q.short \/ p.broke # q.broke) => q.pc = "input"
            /\ (q.pc = "output" /\ p # q) =>
                  IF q.idx <= Len(plugins)
                    THEN p.pc = "output" /\ p.idx = q.idx + 1
                    ELSE p.pc = "done"]_vars

C24_Witness ==
    \E r \in Reqs : LET q == req[r] IN
        /\ q.pc = "done" /\ q.status = 200
        /\ q.out_empty_at = 1
        /\ q.out_bypass_at = 1
        /\ Len(plugins) >= 2
        /\ q.out_invoked = [k \in 1..Len(plugins) |-> k]
        /\ q.response # <<>>

\* the command names the request id
Names(cmd, id) == cmd.kind \in {"execute", "deny"} /\ cmd.id = id

\* C28: of the code runner's table, under any interleaving of /execute and
\* /deny commands on one plugin instance: the code stored under an id is
\* run at most once; an id that a command has executed or denied is not
\* pending; an /execute of such an id runs nothing and is answered
\* "Invalid or expired execution ID."; and a command removes or runs only
\* the entry of the id it names
C28_PendingCodeRunsAtMostOnce ==
    /\ [](\A id \in Ids :
            /\ run_count[id] <= 1
            /\ (\E c \in Commands : Names(commands[c], id)) =>
                    id \notin pending_code
            /\ run_count[id] = 1 =>
                    \E c \in Commands :
                        /\ Names(commands[c], id)
                        /\ commands[c].kind = "execute"
                        /\ commands[c].reply # InvalidId)
    /\ [][\A c \in Commands :
            (commands[c].pc = "idle" /\ commands'[c].kind = "execute"
                /\ \E d \in Commands : Names(commands[d], commands'[c].id))
            => /\ commands'[c].reply = InvalidId
               /\ commands'[c].pc = "done"
               /\ run_count' = run_count
               /\ pending_code' = pending_code]_vars
    /\ [][\A id \in Ids :
            ((id \in pending_code /\ id \notin pending_code')
                \/ run_count'[id] # run_count[id])
            => \E c \in Commands :
                /\ commands[c].pc = "idle"
                /\ commands'[c] # commands[c]
                /\ Names(commands'[c], id)]_vars

C28_Witness ==
    \E c, d, e \in Commands :
        /\ commands[c].pc = "running" /\ commands[c].id = 1
        /\ commands[d].kind = "execute" /\ commands[d].id = 1
        /\ commands[d].reply = InvalidId
        /\ commands[e].kind = "deny" /\ commands[e].id = 1
        /\ run_count[1] = 1
        /\ 2 \in pending_code

====
